---- MODULE Spec2Model ----
(***************************************************************************)
(* Model of the Aarthiq backend services: the onboarding workflow          *)
(* (onboarding.service.ts), the business approval gate (business service)  *)
(* and the lead / interest tracking (interest.service.ts).                 *)
(* Every service function is one action (calls run one after the other);   *)
(* the relational store is the state.  `last` records the outcome of the   *)
(* most recent service call.  The functions that read the store, await and *)
(* then write are modelled a second time, one action per await, for the    *)
(* specifications with interleaved callers (`calls`).                      *)
(***************************************************************************)
EXTENDS Integers, Sequences, FiniteSets, TLC

\* ------------------------------------------------------------------ bounds
MaxReq == 1            \* onboarding requests ever created
MaxTime == 108         \* wall clock stops advancing here (hours)
TickHours == 36        \* granularity of the wall clock (hours)
MaxSub == 1            \* interest submissions ever created
MaxFollowUps == 2      \* follow-ups ever created
MaxSources == 3        \* custom lead sources ever created
MaxInserts == 2        \* onboarding requests created by interleaved callers
MaxRemovals == 2       \* removal requests ever created

\* ------------------------------------------------------- program constants
TOKEN_EXPIRATION_HOURS == 72
NULL == -1             \* SQL NULL / JS null
UNDEFINED == -2        \* an optional argument the caller left out

Emails == {"a@x.com", "b@x.com"}
RegNos == {"REG-1", "REG-2"}
Reasons == {"incomplete", "duplicate"}
Industries == {"Fintech", "Tech", "Agro Tech"}
Remarks == {"called", "emailed"}
InterestStatuses == {"NOT_CONTACTED", "INTERESTED", "NOT_INTERESTED"}
SourceInputs == {"", "Referral"}
SourceNames == {"Website", "website", "Partner"}
FollowUpDates == {UNDEFINED, NULL, 7}

DEFAULT_SOURCES ==
  <<"aarthiQ Platform", "Website", "Referral", "Social Media", "Manual Entry", "Other">>

VARIABLES
  now,          \* wall clock, new Date()
  requests,     \* table BusinessOnboardingRequest, row id = index
  logins,       \* table BusinessLogin, row id = index
  businesses,   \* table Business, row id = index
  categories,   \* table Category, set of [name, slug]
  nextToken,    \* source of fresh generateToken() values
  usedTokens,   \* history: tokens a registration has been completed with
  submissions,  \* table InterestSubmission, row id = index
  followUps,    \* table InterestFollowUp, set of rows
  nextFollowUpId, \* id of the next InterestFollowUp row
  assigned,     \* history: per submission, the followUpNumbers given out, in order
  leadSources,  \* table LeadSource, set of rows
  nextSourceId, \* id of the next LeadSource row
  calls,        \* per caller: the service call in flight between two awaits
  removalRequests, \* table BusinessRemovalRequest, row id = index
  last          \* outcome of the most recent service call

onboardingVars == <<requests, logins, businesses, categories, nextToken, usedTokens>>

interestVars == <<submissions, followUps, nextFollowUpId, assigned>>

sourceVars == <<leadSources, nextSourceId>>

vars == <<now, calls, removalRequests, onboardingVars, interestVars, sourceVars, last>>

\* the callers whose requests the server handles at the same time
Callers == {1, 2}

\* a caller with no call in flight, and the locals of a call in flight
Idle ==
  [pc |-> "idle", token |-> NULL, request |-> NULL, email |-> "",
   registrationNumber |-> "", industry |-> "", categoryCreated |-> FALSE,
   interestId |-> NULL, nextFollowUpNumber |-> NULL, contacted |-> FALSE,
   followUpId |-> NULL]

NoCalls == [p \in Callers |-> Idle]

\* ------------------------------------------------------------ token utils
generateToken == nextToken

getTokenExpiration == now + TOKEN_EXPIRATION_HOURS

isTokenExpired_Reversed(expiresAt) ==
  IF expiresAt = NULL THEN TRUE ELSE now < expiresAt

isTokenExpired(expiresAt) ==
  IF expiresAt = NULL THEN TRUE ELSE now > expiresAt

\* ---------------------------------------------------------------- helpers
Result(op, arg, err, msg, num, list) ==
  [op |-> op, arg |-> arg, err |-> err, msg |-> msg, num |-> num, list |-> list]

Ok(op, arg) == Result(op, arg, "none", "", NULL, << >>)

Fail(op, arg, err, msg) == Result(op, arg, err, msg, NULL, << >>)

\* prisma.businessOnboardingRequest.findUnique({ where: { onboardingToken } })
RequestsByToken(token) ==
  {i \in 1..Len(requests) : requests[i].onboardingToken = token}

\* category slug of completeBusinessRegistration:
\* industry.toLowerCase().replace(/\s+/g, '-').replace(/[^a-z0-9-]/g, '')
Slug(industry) ==
  CASE industry = "Fintech" -> "fintech"
    [] industry = "Tech" -> "tech"
    [] industry = "Agro Tech" -> "agro-tech"

SeedCategories ==
  {[name |-> "Tech Company", slug |-> "tech"], [name |-> "Fintech", slug |-> "fintech"]}

\* a request row an administrator has marked CONTACTED directly in the store
\* (the status is part of the schema enum, no service call sets it)
ContactedRow ==
  [email |-> "b@x.com", status |-> "CONTACTED", onboardingToken |-> NULL,
   tokenExpiresAt |-> NULL, rejectionReason |-> NULL,
   createdBusinessLoginId |-> NULL, reviewedAt |-> NULL]

Init ==
  /\ now = 0
  /\ calls = NoCalls
  /\ removalRequests = << >>
  /\ requests \in {<< >>, <<ContactedRow>>}
  /\ logins = << >>
  /\ businesses = << >>
  /\ categories = SeedCategories
  /\ nextToken = 1
  /\ usedTokens = {}
  /\ submissions = << >>
  /\ followUps = {}
  /\ nextFollowUpId = 1
  /\ assigned = << >>
  /\ leadSources = {}
  /\ nextSourceId = 1
  /\ last = Ok("init", NULL)

\* ------------------------------------------------------------ wall clock
Tick ==
  /\ now + TickHours <= MaxTime
  /\ now' = now + TickHours
  /\ UNCHANGED <<calls, removalRequests, onboardingVars, interestVars, sourceVars, last>>

\* ------------------------------------------------------ onboarding service
createOnboardingRequest(email) ==
  LET existing == {i \in 1..Len(requests) :
                     /\ requests[i].email = email
                     /\ requests[i].status \in {"PENDING", "CONTACTED", "APPROVED"}}
  IN /\ existing = {} => Len(requests) < MaxReq
     /\ IF existing # {}
        THEN /\ last' = Fail("createOnboardingRequest", NULL, "ConflictError",
                             "An onboarding request with this email already exists")
             /\ UNCHANGED requests
        ELSE /\ requests' = Append(requests,
                   [email |-> email, status |-> "PENDING", onboardingToken |-> NULL,
                    tokenExpiresAt |-> NULL, rejectionReason |-> NULL,
                    createdBusinessLoginId |-> NULL, reviewedAt |-> NULL])
             /\ last' = Ok("createOnboardingRequest", Len(requests) + 1)
     /\ UNCHANGED <<now, removalRequests, calls, logins, businesses, categories, nextToken, usedTokens, interestVars, sourceVars>>

\* the status checks of approveOnboardingRequest: the message of the
\* BadRequestError thrown for a request in this status, "" when none is thrown
ApproveRefusal_OnlyRejected(status) ==
  IF status = "REJECTED" THEN "Cannot approve a rejected request" ELSE ""

ApproveRefusal_OnlyApproved(status) ==
  IF status = "APPROVED" THEN "Request already approved" ELSE ""

ApproveRefusal(status) ==
  IF status = "APPROVED" THEN "Request already approved"
  ELSE IF status = "REJECTED" THEN "Cannot approve a rejected request"
  ELSE ""

\* what approveOnboardingRequest returns after the update: the approval email
\* is sent inside try/catch, a failure is logged and dropped
ApprovalResult_EmailThrown(requestId, emailOk) ==
  IF emailOk THEN Ok("approveOnboardingRequest", requestId)
  ELSE Fail("approveOnboardingRequest", requestId, "Error", "Failed to send email")

ApprovalResult(requestId, emailOk) == Ok("approveOnboardingRequest", requestId)

approveOnboardingRequest(requestId, emailOk) ==
  /\ IF requestId \notin 1..Len(requests)
     THEN /\ last' = Fail("approveOnboardingRequest", requestId, "NotFoundError",
                          "Onboarding request not found")
          /\ UNCHANGED <<requests, nextToken>>
     ELSE IF ApproveRefusal(requests[requestId].status) # ""
     THEN /\ last' = Fail("approveOnboardingRequest", requestId, "BadRequestError",
                          ApproveRefusal(requests[requestId].status))
          /\ UNCHANGED <<requests, nextToken>>
     ELSE /\ requests' = [requests EXCEPT ![requestId] =
                 [@ EXCEPT !.status = "APPROVED",
                           !.onboardingToken = generateToken,
                           !.tokenExpiresAt = getTokenExpiration,
                           !.reviewedAt = now]]
          /\ nextToken' = nextToken + 1
          /\ last' = ApprovalResult(requestId, emailOk)
  /\ emailOk \in BOOLEAN
  /\ UNCHANGED <<now, removalRequests, calls, logins, businesses, categories, usedTokens, interestVars, sourceVars>>

\* the status check of rejectOnboardingRequest, as ApproveRefusal
RejectRefusal_Reversed(status) ==
  IF status = "REJECTED" THEN "Cannot reject an approved request" ELSE ""

RejectRefusal_None(status) == ""

RejectRefusal(status) ==
  IF status = "APPROVED" THEN "Cannot reject an approved request" ELSE ""

\* what rejectOnboardingRequest returns after the update: the rejection email
\* is awaited outside any try/catch, sendEmail rethrows a transport failure
RejectionResult_EmailCaught(requestId, emailOk) ==
  Ok("rejectOnboardingRequest", requestId)

RejectionResult(requestId, emailOk) ==
  IF emailOk THEN Ok("rejectOnboardingRequest", requestId)
  ELSE Fail("rejectOnboardingRequest", requestId, "Error", "Failed to send email")

rejectOnboardingRequest(requestId, reason, emailOk) ==
  /\ IF requestId \notin 1..Len(requests)
     THEN /\ last' = Fail("rejectOnboardingRequest", requestId, "NotFoundError",
                          "Onboarding request not found")
          /\ UNCHANGED requests
     ELSE IF RejectRefusal(requests[requestId].status) # ""
     THEN /\ last' = Fail("rejectOnboardingRequest", requestId, "BadRequestError",
                          RejectRefusal(requests[requestId].status))
          /\ UNCHANGED requests
     ELSE /\ requests' = [requests EXCEPT ![requestId] =
                 [@ EXCEPT !.status = "REJECTED",
                           !.rejectionReason = reason,
                           !.reviewedAt = now]]
          /\ last' = RejectionResult(requestId, emailOk)
  /\ UNCHANGED <<now, removalRequests, calls, logins, businesses, categories, nextToken, usedTokens, interestVars, sourceVars>>

\* the four token checks shared by validateRegistrationToken and
\* completeBusinessRegistration, in the order of the code
TokenError_NoUsedCheck(op, token) ==
  LET found == RequestsByToken(token)
      request == requests[CHOOSE i \in found : TRUE]
  IN IF found = {}
     THEN Fail(op, token, "NotFoundError", "Invalid token")
     ELSE IF request.status # "APPROVED"
     THEN Fail(op, token, "BadRequestError", "Token is not valid")
     ELSE IF isTokenExpired(request.tokenExpiresAt)
     THEN Fail(op, token, "BadRequestError", "Token has expired")
     ELSE Ok(op, token)

TokenError(op, token) ==
  LET found == RequestsByToken(token)
      request == requests[CHOOSE i \in found : TRUE]
  IN IF found = {}
     THEN Fail(op, token, "NotFoundError", "Invalid token")
     ELSE IF request.status # "APPROVED"
     THEN Fail(op, token, "BadRequestError", "Token is not valid")
     ELSE IF isTokenExpired(request.tokenExpiresAt)
     THEN Fail(op, token, "BadRequestError", "Token has expired")
     ELSE IF request.createdBusinessLoginId # NULL
     THEN Fail(op, token, "BadRequestError", "Token has already been used")
     ELSE Ok(op, token)

validateRegistrationToken(token) ==
  /\ last' = TokenError("validateRegistrationToken", token)
  /\ UNCHANGED <<now, removalRequests, calls, onboardingVars, interestVars, sourceVars>>

\* prisma.businessLogin.findUnique({ where: { email } })
existingBusinessLogin(email) ==
  {l \in 1..Len(logins) : logins[l].email = email}

\* prisma.business.findUnique({ where: { registrationNumber } })
existingBusiness_None(registrationNumber) == {}

existingBusiness(registrationNumber) ==
  {b \in 1..Len(businesses) : businesses[b].registrationNumber = registrationNumber}

completeBusinessRegistration(token, registrationNumber, industry) ==
  LET op == "completeBusinessRegistration"
      check == TokenError(op, token)
      reqId == CHOOSE i \in RequestsByToken(token) : TRUE
      request == requests[reqId]
      byName == {c \in categories : c.name = industry}
      bySlug == {c \in categories : c.slug = Slug(industry)}
      loginId == Len(logins) + 1
  IN /\ IF check.err # "none"
        THEN /\ last' = check
             /\ UNCHANGED <<requests, logins, businesses, categories, usedTokens>>
        ELSE IF existingBusinessLogin(request.email) # {}
        THEN /\ last' = Fail(op, token, "ConflictError", "Email already registered")
             /\ UNCHANGED <<requests, logins, businesses, categories, usedTokens>>
        ELSE IF existingBusiness(registrationNumber) # {}
        THEN /\ last' = Fail(op, token, "ConflictError", "Registration number already exists")
             /\ UNCHANGED <<requests, logins, businesses, categories, usedTokens>>
        ELSE /\ categories' = IF byName = {} /\ bySlug = {}
                              THEN categories \cup {[name |-> industry, slug |-> Slug(industry)]}
                              ELSE categories
             /\ logins' = Append(logins, [email |-> request.email, isActive |-> TRUE])
             /\ businesses' = Append(businesses,
                   [businessLoginId |-> loginId, registrationNumber |-> registrationNumber,
                    status |-> "PENDING", rejectionReason |-> NULL, isActive |-> TRUE])
             /\ requests' = [requests EXCEPT ![reqId].createdBusinessLoginId = loginId]
             /\ usedTokens' = usedTokens \cup {token}
             /\ last' = Ok(op, token)
     /\ UNCHANGED <<now, removalRequests, calls, nextToken, interestVars, sourceVars>>

\* ------------------------------- createOnboardingRequest, await by await
\* await prisma.businessOnboardingRequest.findFirst({ where: { email, status: { in: [...] } } })
createRequest_findFirst(p, email) ==
  LET existing == {i \in 1..Len(requests) :
                     /\ requests[i].email = email
                     /\ requests[i].status \in {"PENDING", "CONTACTED", "APPROVED"}}
      pending == {q \in Callers : calls[q].pc = "create"}
  IN /\ calls[p].pc = "idle"
     /\ existing = {} => Len(requests) + Cardinality(pending) < MaxInserts
     /\ IF existing # {}
        THEN /\ last' = Fail("createOnboardingRequest", NULL, "ConflictError",
                             "An onboarding request with this email already exists")
             /\ UNCHANGED calls
        ELSE /\ calls' = [calls EXCEPT ![p] = [Idle EXCEPT !.pc = "create", !.email = email]]
             /\ UNCHANGED last
     /\ UNCHANGED <<now, removalRequests, onboardingVars, interestVars, sourceVars>>

\* await prisma.businessOnboardingRequest.create({ data: { ..., status: 'PENDING' } })
createRequest_create(p) ==
  /\ calls[p].pc = "create"
  /\ requests' = Append(requests,
        [email |-> calls[p].email, status |-> "PENDING", onboardingToken |-> NULL,
         tokenExpiresAt |-> NULL, rejectionReason |-> NULL,
         createdBusinessLoginId |-> NULL, reviewedAt |-> NULL])
  /\ last' = Ok("createOnboardingRequest", Len(requests) + 1)
  /\ calls' = [calls EXCEPT ![p] = Idle]
  /\ UNCHANGED <<now, removalRequests, logins, businesses, categories, nextToken, usedTokens,
                 interestVars, sourceVars>>

\* --------------------------- completeBusinessRegistration, await by await
\* Each action is the code between two awaits of one caller; the locals the
\* call keeps across awaits (request, businessData, category) are in calls[p].
completeOp == "completeBusinessRegistration"

\* await prisma.businessOnboardingRequest.findUnique + the four token checks
complete_findRequest(p, token, registrationNumber, industry) ==
  LET check == TokenError(completeOp, token)
      reqId == CHOOSE i \in RequestsByToken(token) : TRUE
  IN /\ calls[p].pc = "idle"
     /\ IF check.err # "none"
        THEN /\ last' = check
             /\ UNCHANGED calls
        ELSE /\ calls' = [calls EXCEPT ![p] =
                   [Idle EXCEPT !.pc = "findLogin", !.token = token, !.request = reqId,
                                !.email = requests[reqId].email,
                                !.registrationNumber = registrationNumber,
                                !.industry = industry]]
             /\ UNCHANGED last
     /\ UNCHANGED <<now, removalRequests, onboardingVars, interestVars, sourceVars>>

\* await prisma.businessLogin.findUnique({ where: { email: request.email } })
complete_findLogin(p) ==
  /\ calls[p].pc = "findLogin"
  /\ IF existingBusinessLogin(calls[p].email) # {}
     THEN /\ last' = Fail(completeOp, calls[p].token, "ConflictError",
                          "Email already registered")
          /\ calls' = [calls EXCEPT ![p] = Idle]
     ELSE /\ calls' = [calls EXCEPT ![p].pc = "findBusiness"]
          /\ UNCHANGED last
  /\ UNCHANGED <<now, removalRequests, onboardingVars, interestVars, sourceVars>>

\* await prisma.business.findUnique({ where: { registrationNumber } })
complete_findBusiness(p) ==
  /\ calls[p].pc = "findBusiness"
  /\ IF existingBusiness(calls[p].registrationNumber) # {}
     THEN /\ last' = Fail(completeOp, calls[p].token, "ConflictError",
                          "Registration number already exists")
          /\ calls' = [calls EXCEPT ![p] = Idle]
     ELSE /\ calls' = [calls EXCEPT ![p].pc = "findCategory"]
          /\ UNCHANGED last
  /\ UNCHANGED <<now, removalRequests, onboardingVars, interestVars, sourceVars>>

\* await prisma.category.findFirst({ where: { name: businessData.industry } })
complete_findCategory(p) ==
  /\ calls[p].pc = "findCategory"
  /\ calls' = [calls EXCEPT ![p].pc =
                 IF \E c \in categories : c.name = calls[p].industry
                 THEN "transaction" ELSE "upsertCategory"]
  /\ UNCHANGED <<now, removalRequests, onboardingVars, interestVars, sourceVars, last>>

\* await prisma.category.upsert({ where: { slug }, update: {}, create: { name, slug } })
complete_upsertCategory(p) ==
  LET slug == Slug(calls[p].industry)
      exists == \E c \in categories : c.slug = slug
  IN /\ calls[p].pc = "upsertCategory"
     /\ categories' = IF exists THEN categories
                      ELSE categories \cup {[name |-> calls[p].industry, slug |-> slug]}
     /\ calls' = [calls EXCEPT ![p].pc = "transaction", ![p].categoryCreated = ~exists]
     /\ UNCHANGED <<now, removalRequests, requests, logins, businesses, nextToken, usedTokens,
                    interestVars, sourceVars, last>>

\* the unique constraints (BusinessLogin.email, Business.registrationNumber) an
\* insert of the registration transaction can violate
UniqueViolation_RegistrationNumberOnly(email, registrationNumber) ==
  \E b \in 1..Len(businesses) : businesses[b].registrationNumber = registrationNumber

UniqueViolation(email, registrationNumber) ==
  \/ \E l \in 1..Len(logins) : logins[l].email = email
  \/ \E b \in 1..Len(businesses) : businesses[b].registrationNumber = registrationNumber

\* table BusinessLogin once prisma.$transaction has returned or thrown: the
\* login inserted by tx.businessLogin.create is rolled back when a statement of
\* the transaction fails
LoginsAfterTransaction_NoRollback(email, registrationNumber) ==
  IF \E l \in 1..Len(logins) : logins[l].email = email
  THEN logins
  ELSE Append(logins, [email |-> email, isActive |-> TRUE])

LoginsAfterTransaction(email, registrationNumber) ==
  IF UniqueViolation(email, registrationNumber)
  THEN logins
  ELSE Append(logins, [email |-> email, isActive |-> TRUE])

\* table BusinessOnboardingRequest once prisma.$transaction has returned or
\* thrown: tx.businessOnboardingRequest.update links the request to the login
RequestsAfterTransaction_NoRollback(request, email, registrationNumber) ==
  [requests EXCEPT ![request].createdBusinessLoginId = Len(logins) + 1]

RequestsAfterTransaction(request, email, registrationNumber) ==
  IF UniqueViolation(email, registrationNumber)
  THEN requests
  ELSE [requests EXCEPT ![request].createdBusinessLoginId = Len(logins) + 1]

\* await prisma.$transaction(...): login, business and the request's link are
\* written together or not at all
complete_transaction(p) ==
  LET c == calls[p]
      loginId == Len(logins) + 1
  IN /\ c.pc = "transaction"
     /\ logins' = LoginsAfterTransaction(c.email, c.registrationNumber)
     /\ requests' = RequestsAfterTransaction(c.request, c.email, c.registrationNumber)
     /\ IF UniqueViolation(c.email, c.registrationNumber)
        THEN \* num: the category rows this call had inserted before it failed
             /\ last' = Result(completeOp, c.token, "PrismaClientKnownRequestError",
                               "Unique constraint failed",
                               IF c.categoryCreated THEN 1 ELSE 0, << >>)
             /\ UNCHANGED <<businesses, usedTokens>>
        ELSE /\ businesses' = Append(businesses,
                   [businessLoginId |-> loginId, registrationNumber |-> c.registrationNumber,
                    status |-> "PENDING", rejectionReason |-> NULL, isActive |-> TRUE])
             /\ usedTokens' = usedTokens \cup {c.token}
             /\ last' = Ok(completeOp, c.token)
     /\ calls' = [calls EXCEPT ![p] = Idle]
     /\ UNCHANGED <<now, removalRequests, categories, nextToken, interestVars, sourceVars>>

\* -------------------------------------------------------- business service
\* token invalidation inside the approveBusiness / rejectBusiness transaction
InvalidateToken_TokenOnly(businessLoginId) ==
  LET linked == {i \in 1..Len(requests) :
                   requests[i].createdBusinessLoginId = businessLoginId}
      id == CHOOSE i \in linked : TRUE
  IN IF linked # {} /\ requests[id].onboardingToken # NULL
     THEN [requests EXCEPT ![id] = [@ EXCEPT !.onboardingToken = NULL]]
     ELSE requests

InvalidateToken(businessLoginId) ==
  LET linked == {i \in 1..Len(requests) :
                   requests[i].createdBusinessLoginId = businessLoginId}
      id == CHOOSE i \in linked : TRUE
  IN IF linked # {} /\ requests[id].onboardingToken # NULL
     THEN [requests EXCEPT ![id] =
             [@ EXCEPT !.onboardingToken = NULL, !.tokenExpiresAt = NULL]]
     ELSE requests

approveBusiness(businessId) ==
  /\ IF businessId \notin 1..Len(businesses)
     THEN /\ last' = Fail("approveBusiness", businessId, "NotFoundError", "Business not found")
          /\ UNCHANGED <<requests, businesses>>
     ELSE IF businesses[businessId].status = "APPROVED"
     THEN /\ last' = Fail("approveBusiness", businessId, "BadRequestError",
                          "Business already approved")
          /\ UNCHANGED <<requests, businesses>>
     ELSE /\ businesses' = [businesses EXCEPT ![businessId] =
                 [@ EXCEPT !.status = "APPROVED", !.rejectionReason = NULL]]
          /\ requests' = InvalidateToken(businesses[businessId].businessLoginId)
          /\ last' = Ok("approveBusiness", businessId)
  /\ UNCHANGED <<now, removalRequests, calls, logins, categories, nextToken, usedTokens, interestVars, sourceVars>>

rejectBusiness(businessId, reason) ==
  /\ IF businessId \notin 1..Len(businesses)
     THEN /\ last' = Fail("rejectBusiness", businessId, "NotFoundError", "Business not found")
          /\ UNCHANGED <<requests, businesses>>
     ELSE IF businesses[businessId].status = "REJECTED"
     THEN /\ last' = Fail("rejectBusiness", businessId, "BadRequestError",
                          "Business already rejected")
          /\ UNCHANGED <<requests, businesses>>
     ELSE /\ businesses' = [businesses EXCEPT ![businessId] =
                 [@ EXCEPT !.status = "REJECTED", !.rejectionReason = reason]]
          /\ requests' = InvalidateToken(businesses[businessId].businessLoginId)
          /\ last' = Ok("rejectBusiness", businessId)
  /\ UNCHANGED <<now, removalRequests, calls, logins, categories, nextToken, usedTokens, interestVars, sourceVars>>

\* ------------------------------------------- business administration
\* the body of PUT /api/businesses/:id as far as it touches the modelled
\* columns: `has` holds the keys the administrator passed
AdminUpdates ==
  {d \in [has : SUBSET {"isActive"}, isActive : BOOLEAN] :
     "isActive" \notin d.has => d.isActive = FALSE}

\* prisma.business.update({ where: { id: businessId }, data })
updateBusiness(businessId, data) ==
  /\ IF businessId \notin 1..Len(businesses)
     THEN /\ last' = Fail("updateBusiness", businessId, "NotFoundError", "Business not found")
          /\ UNCHANGED businesses
     ELSE /\ businesses' = [businesses EXCEPT ![businessId].isActive =
                              IF "isActive" \in data.has THEN data.isActive ELSE @]
          /\ last' = Ok("updateBusiness", businessId)
  /\ UNCHANGED <<now, removalRequests, calls, requests, logins, categories, nextToken,
                 usedTokens, interestVars, sourceVars>>

\* the nested write of toggleBusinessActive and approveRemovalRequest:
\* data: { isActive, businessLogin: { update: { isActive } } }
SetLoginActive_Skipped(businessLoginId, isActive) == logins

SetLoginActive(businessLoginId, isActive) ==
  [logins EXCEPT ![businessLoginId].isActive = isActive]

toggleBusinessActive_Reopens(businessId) ==
  /\ businessId \in 1..Len(businesses)
  /\ businesses' = [businesses EXCEPT ![businessId] =
         [@ EXCEPT !.isActive = ~@, !.status = "PENDING", !.rejectionReason = NULL]]
  /\ logins' = SetLoginActive(businesses[businessId].businessLoginId,
                              ~businesses[businessId].isActive)
  /\ last' = Ok("toggleBusinessActive", businessId)
  /\ UNCHANGED <<now, removalRequests, calls, requests, categories, nextToken, usedTokens,
                 interestVars, sourceVars>>

toggleBusinessActive(businessId) ==
  /\ IF businessId \notin 1..Len(businesses)
     THEN /\ last' = Fail("toggleBusinessActive", businessId, "NotFoundError",
                          "Business not found")
          /\ UNCHANGED <<businesses, logins>>
     ELSE LET newActiveStatus == ~businesses[businessId].isActive
          IN /\ businesses' = [businesses EXCEPT ![businessId].isActive = newActiveStatus]
             /\ logins' = SetLoginActive(businesses[businessId].businessLoginId,
                                         newActiveStatus)
             /\ last' = Ok("toggleBusinessActive", businessId)
  /\ UNCHANGED <<now, removalRequests, calls, requests, categories, nextToken, usedTokens,
                 interestVars, sourceVars>>

\* prisma.businessRemovalRequest.findFirst({ where: { businessId, status: 'PENDING' } })
PendingRemovals(businessId) ==
  {r \in 1..Len(removalRequests) :
     /\ removalRequests[r].businessId = businessId
     /\ removalRequests[r].status = "PENDING"}

requestBusinessRemoval(businessLoginId) ==
  LET found == {b \in 1..Len(businesses) : businesses[b].businessLoginId = businessLoginId}
      business == CHOOSE b \in found : TRUE
  IN /\ (found # {} /\ PendingRemovals(business) = {}) => Len(removalRequests) < MaxRemovals
     /\ IF found = {}
        THEN /\ last' = Fail("requestBusinessRemoval", businessLoginId, "NotFoundError",
                             "Business profile not found")
             /\ UNCHANGED removalRequests
        ELSE IF PendingRemovals(business) # {}
        THEN /\ last' = Fail("requestBusinessRemoval", businessLoginId, "ForbiddenError",
                             "You already have a pending removal request")
             /\ UNCHANGED removalRequests
        ELSE /\ removalRequests' = Append(removalRequests,
                   [businessId |-> business, status |-> "PENDING", reviewedAt |-> NULL])
             /\ last' = Ok("requestBusinessRemoval", businessLoginId)
     /\ UNCHANGED <<now, calls, onboardingVars, interestVars, sourceVars>>

\* the status check shared by approveRemovalRequest and rejectRemovalRequest
Reviewable_Always(status) == TRUE

Reviewable(status) == status = "PENDING"

approveRemovalRequest(requestId) ==
  /\ IF requestId \notin 1..Len(removalRequests)
     THEN /\ last' = Fail("approveRemovalRequest", requestId, "NotFoundError",
                          "Removal request not found")
          /\ UNCHANGED <<removalRequests, businesses, logins>>
     ELSE IF ~Reviewable(removalRequests[requestId].status)
     THEN /\ last' = Fail("approveRemovalRequest", requestId, "ForbiddenError",
                          "This request has already been reviewed")
          /\ UNCHANGED <<removalRequests, businesses, logins>>
     ELSE LET businessId == removalRequests[requestId].businessId
          IN /\ removalRequests' = [removalRequests EXCEPT ![requestId] =
                     [@ EXCEPT !.status = "APPROVED", !.reviewedAt = now]]
             /\ businesses' = [businesses EXCEPT ![businessId].isActive = FALSE]
             /\ logins' = SetLoginActive(businesses[businessId].businessLoginId, FALSE)
             /\ last' = Ok("approveRemovalRequest", requestId)
  /\ UNCHANGED <<now, calls, requests, categories, nextToken, usedTokens,
                 interestVars, sourceVars>>

rejectRemovalRequest(requestId) ==
  /\ IF requestId \notin 1..Len(removalRequests)
     THEN /\ last' = Fail("rejectRemovalRequest", requestId, "NotFoundError",
                          "Removal request not found")
          /\ UNCHANGED removalRequests
     ELSE IF ~Reviewable(removalRequests[requestId].status)
     THEN /\ last' = Fail("rejectRemovalRequest", requestId, "ForbiddenError",
                          "This request has already been reviewed")
          /\ UNCHANGED removalRequests
     ELSE /\ removalRequests' = [removalRequests EXCEPT ![requestId] =
                [@ EXCEPT !.status = "REJECTED", !.reviewedAt = now]]
          /\ last' = Ok("rejectRemovalRequest", requestId)
  /\ UNCHANGED <<now, calls, onboardingVars, interestVars, sourceVars>>

\* ------------------------------------------------------------ auth service
\* table Admin as seeded
Admins == {[email |-> "admin@capitalbridge.com", isActive |-> TRUE]}

LoginEmails == {"A@x.com", "b@x.com", "admin@capitalbridge.com", "nobody@x.com"}

\* email.toLowerCase()
toLowerCase(email) == IF email = "A@x.com" THEN "a@x.com" ELSE email

\* the checks of loginUser on a business login, in the order of the code:
\* the message of the UnauthorizedError thrown, "" when none is thrown
LoginRefusal_StatusIgnored(login, passwordValid, business) ==
  IF ~login.isActive THEN "Account is inactive"
  ELSE IF ~passwordValid THEN "Invalid email or password"
  ELSE ""

LoginRefusal(login, passwordValid, business) ==
  IF ~login.isActive THEN "Account is inactive"
  ELSE IF ~passwordValid THEN "Invalid email or password"
  ELSE IF business # {} /\ (\E b \in business : businesses[b].status = "REJECTED")
  THEN "Your business registration was rejected"
  ELSE IF business # {} /\ (\E b \in business : businesses[b].status = "PENDING")
  THEN "Your business registration is still pending admin approval"
  ELSE ""

loginUser(email, passwordValid) ==
  LET normalizedEmail == toLowerCase(email)
      admin == {a \in Admins : a.email = normalizedEmail}
      businessLogin == {l \in 1..Len(logins) : logins[l].email = normalizedEmail}
      id == CHOOSE l \in businessLogin : TRUE
      business == {b \in 1..Len(businesses) : businesses[b].businessLoginId = id}
  IN /\ IF admin # {}
        THEN last' = IF \E a \in admin : ~a.isActive
                     THEN Fail("loginUser", NULL, "UnauthorizedError", "Account is inactive")
                     ELSE IF ~passwordValid
                     THEN Fail("loginUser", NULL, "UnauthorizedError",
                               "Invalid email or password")
                     ELSE Result("loginUser", NULL, "none", "ADMIN", NULL, << >>)
        ELSE IF businessLogin # {}
        THEN last' = IF LoginRefusal(logins[id], passwordValid, business) # ""
                     THEN Fail("loginUser", id, "UnauthorizedError",
                               LoginRefusal(logins[id], passwordValid, business))
                     ELSE Result("loginUser", id, "none", "BUSINESS", NULL, << >>)
        ELSE last' = Fail("loginUser", NULL, "NotFoundError", "Invalid email or password")
     /\ UNCHANGED <<now, removalRequests, calls, onboardingVars, interestVars, sourceVars>>

\* -------------------------------------------------------- interest service
\* business.status !== 'APPROVED' refuses the submission
AcceptsInterest_NotRejected(status) == status # "REJECTED"

AcceptsInterest(status) == status = "APPROVED"

\* column default of InterestSubmission.contacted (the create call of
\* submitInterest passes no value for it)
contactedDefault == FALSE

\* what submitInterest returns once the row is stored: the two notification
\* emails are started with Promise.all(...).catch(...) and not awaited
SubmitResult_EmailsAwaited(businessId, emailsOk) ==
  IF emailsOk THEN Ok("submitInterest", businessId)
  ELSE Fail("submitInterest", businessId, "Error", "Failed to send email")

SubmitResult(businessId, emailsOk) == Ok("submitInterest", businessId)

submitInterest(businessId, source, emailsOk) ==
  /\ (/\ businessId \in 1..Len(businesses)
      /\ AcceptsInterest(businesses[businessId].status)) => Len(submissions) < MaxSub
  /\ IF businessId \notin 1..Len(businesses)
     THEN /\ last' = Fail("submitInterest", businessId, "NotFoundError", "Business not found")
          /\ UNCHANGED <<submissions, assigned>>
     ELSE IF ~AcceptsInterest(businesses[businessId].status)
     THEN /\ last' = Fail("submitInterest", businessId, "BadRequestError",
                          "Business is not available for investment inquiries")
          /\ UNCHANGED <<submissions, assigned>>
     ELSE /\ submissions' = Append(submissions,
                 [businessId |-> businessId, status |-> "NOT_CONTACTED",
                  contacted |-> contactedDefault,
                  followUpRemarks |-> "",     \* "" stands for NULL
                  source |-> IF source = "" THEN "aarthiQ Platform" ELSE source])
          /\ assigned' = Append(assigned, << >>)
          /\ last' = SubmitResult(businessId, emailsOk)
  /\ UNCHANGED <<now, removalRequests, calls, onboardingVars, followUps, nextFollowUpId, sourceVars>>

\* the partial update payload of updateInterestFollowUp: `has` holds the keys
\* the caller passed (data.key !== undefined)
UpdateKeys == {"contacted", "followUpRemarks", "status", "source"}

UpdateData ==
  {d \in [has : SUBSET UpdateKeys, contacted : BOOLEAN, followUpRemarks : {"called"},
          status : InterestStatuses, source : {"Referral"}] :
     /\ "contacted" \notin d.has => d.contacted = FALSE
     /\ "status" \notin d.has => d.status = "NOT_CONTACTED"
     /\ "followUpRemarks" \in d.has <=> "source" \in d.has}

\* the payloads that only carry the contact state
StatusUpdates == {d \in UpdateData : d.has \subseteq {"contacted", "status"}}

\* updateData as built by updateInterestFollowUp, applied to the stored row
ApplyUpdate_NoCoupling(row, data) ==
  [row EXCEPT
     !.contacted = IF "contacted" \in data.has THEN data.contacted ELSE @,
     !.followUpRemarks = IF "followUpRemarks" \in data.has
                         THEN data.followUpRemarks ELSE @,
     !.status = IF "status" \in data.has THEN data.status ELSE @,
     !.source = IF "source" \in data.has THEN data.source ELSE @]

ApplyUpdate_CallerWins(row, data) ==
  LET c1 == IF "status" \in data.has /\ data.status # "NOT_CONTACTED"
            THEN TRUE ELSE row.contacted
      c2 == IF "contacted" \in data.has THEN data.contacted ELSE c1
  IN [row EXCEPT
        !.contacted = c2,
        !.followUpRemarks = IF "followUpRemarks" \in data.has
                            THEN data.followUpRemarks ELSE @,
        !.status = IF "status" \in data.has THEN data.status ELSE @,
        !.source = IF "source" \in data.has THEN data.source ELSE @]

ApplyUpdate(row, data) ==
  LET c1 == IF "contacted" \in data.has THEN data.contacted ELSE row.contacted
      c2 == IF "status" \in data.has /\ data.status # "NOT_CONTACTED" THEN TRUE ELSE c1
  IN [row EXCEPT
        !.contacted = c2,
        !.followUpRemarks = IF "followUpRemarks" \in data.has
                            THEN data.followUpRemarks ELSE @,
        !.status = IF "status" \in data.has THEN data.status ELSE @,
        !.source = IF "source" \in data.has THEN data.source ELSE @]

updateInterestFollowUp(interestId, businessId, data) ==
  /\ IF \/ interestId \notin 1..Len(submissions)
        \/ submissions[interestId].businessId # businessId
     THEN /\ last' = Fail("updateInterestFollowUp", interestId, "NotFoundError",
                          "Interest submission not found")
          /\ UNCHANGED submissions
     ELSE /\ submissions' = [submissions EXCEPT ![interestId] = ApplyUpdate(@, data)]
          /\ last' = Ok("updateInterestFollowUp", interestId)
  /\ UNCHANGED <<now, removalRequests, calls, onboardingVars, followUps, nextFollowUpId, assigned, sourceVars>>

\* followUps: { orderBy: { followUpNumber: 'desc' }, take: 1 } and the
\* computation of the next follow-up number
NextFollowUpNumber(interestId) ==
  LET mine == {f \in followUps : f.interestSubmissionId = interestId}
      top == CHOOSE f \in mine : \A g \in mine : g.followUpNumber <= f.followUpNumber
  IN IF mine # {} THEN top.followUpNumber + 1 ELSE 1

\* nextFollowUpDate ? new Date(nextFollowUpDate) : null
ToDate(nextFollowUpDate) ==
  IF nextFollowUpDate \in {UNDEFINED, NULL} THEN NULL ELSE nextFollowUpDate

addInterestFollowUp(interestId, businessId, remarks, nextFollowUpDate) ==
  /\ (/\ interestId \in 1..Len(submissions)
      /\ submissions[interestId].businessId = businessId) => nextFollowUpId <= MaxFollowUps
  /\ IF \/ interestId \notin 1..Len(submissions)
        \/ submissions[interestId].businessId # businessId
     THEN /\ last' = Fail("addInterestFollowUp", interestId, "NotFoundError",
                          "Interest submission not found")
          /\ UNCHANGED <<submissions, followUps, nextFollowUpId, assigned>>
     ELSE /\ followUps' = followUps \cup
                 {[id |-> nextFollowUpId, interestSubmissionId |-> interestId,
                   followUpNumber |-> NextFollowUpNumber(interestId),
                   remarks |-> remarks, nextFollowUpDate |-> ToDate(nextFollowUpDate)]}
          /\ nextFollowUpId' = nextFollowUpId + 1
          /\ assigned' = [assigned EXCEPT ![interestId] =
                            Append(@, NextFollowUpNumber(interestId))]
          /\ submissions' = IF ~submissions[interestId].contacted
                            THEN [submissions EXCEPT ![interestId].contacted = TRUE]
                            ELSE submissions
          /\ last' = Result("addInterestFollowUp", interestId, "none", "",
                            NextFollowUpNumber(interestId), << >>)
  /\ UNCHANGED <<now, removalRequests, calls, onboardingVars, sourceVars>>

\* prisma.interestFollowUp.findFirst({ where: { id, interestSubmission: { businessId } } })
OwnedFollowUps_AnyBusiness(followUpId, businessId) ==
  {f \in followUps : f.id = followUpId}

OwnedFollowUps(followUpId, businessId) ==
  {f \in followUps : /\ f.id = followUpId
                     /\ submissions[f.interestSubmissionId].businessId = businessId}

updateFollowUp(followUpId, businessId, remarks, nextFollowUpDate) ==
  LET found == OwnedFollowUps(followUpId, businessId)
      followUp == CHOOSE f \in found : TRUE
      updated == [followUp EXCEPT
                    !.remarks = remarks,
                    !.nextFollowUpDate = IF nextFollowUpDate # UNDEFINED
                                         THEN ToDate(nextFollowUpDate) ELSE @]
  IN /\ IF found = {}
        THEN /\ last' = Fail("updateFollowUp", followUpId, "NotFoundError", "Follow-up not found")
             /\ UNCHANGED followUps
        ELSE /\ followUps' = (followUps \ {followUp}) \cup {updated}
             /\ last' = Ok("updateFollowUp", followUpId)
     /\ UNCHANGED <<now, removalRequests, calls, onboardingVars, submissions, nextFollowUpId, assigned, sourceVars>>

deleteFollowUp(followUpId, businessId) ==
  LET found == OwnedFollowUps(followUpId, businessId)
  IN /\ IF found = {}
        THEN /\ last' = Fail("deleteFollowUp", followUpId, "NotFoundError", "Follow-up not found")
             /\ UNCHANGED followUps
        ELSE /\ followUps' = followUps \ found
             /\ last' = Ok("deleteFollowUp", followUpId)
     /\ UNCHANGED <<now, removalRequests, calls, onboardingVars, submissions, nextFollowUpId, assigned, sourceVars>>

\* ---------------- addInterestFollowUp and deleteFollowUp, await by await
\* await prisma.interestSubmission.findFirst({ ..., include: { followUps: top 1 } })
\* and the computation of nextFollowUpNumber
addFollowUp_findFirst(p, interestId, businessId) ==
  LET found == /\ interestId \in 1..Len(submissions)
               /\ submissions[interestId].businessId = businessId
      creating == {q \in Callers : calls[q].pc = "createFollowUp"}
  IN /\ calls[p].pc = "idle"
     /\ found => nextFollowUpId + Cardinality(creating) <= MaxFollowUps
     /\ IF ~found
        THEN /\ last' = Fail("addInterestFollowUp", interestId, "NotFoundError",
                             "Interest submission not found")
             /\ UNCHANGED calls
        ELSE /\ calls' = [calls EXCEPT ![p] =
                   [Idle EXCEPT !.pc = "createFollowUp", !.interestId = interestId,
                                !.nextFollowUpNumber = NextFollowUpNumber(interestId),
                                !.contacted = submissions[interestId].contacted]]
             /\ UNCHANGED last
     /\ UNCHANGED <<now, removalRequests, onboardingVars, interestVars, sourceVars>>

\* await prisma.interestFollowUp.create({ data: { ..., followUpNumber: nextFollowUpNumber } })
addFollowUp_create(p, remarks, nextFollowUpDate) ==
  LET c == calls[p]
  IN /\ c.pc = "createFollowUp"
     /\ followUps' = followUps \cup
           {[id |-> nextFollowUpId, interestSubmissionId |-> c.interestId,
             followUpNumber |-> c.nextFollowUpNumber,
             remarks |-> remarks, nextFollowUpDate |-> ToDate(nextFollowUpDate)]}
     /\ nextFollowUpId' = nextFollowUpId + 1
     /\ assigned' = [assigned EXCEPT ![c.interestId] = Append(@, c.nextFollowUpNumber)]
     /\ IF ~c.contacted
        THEN /\ calls' = [calls EXCEPT ![p].pc = "markContacted"]
             /\ UNCHANGED last
        ELSE /\ calls' = [calls EXCEPT ![p] = Idle]
             /\ last' = Result("addInterestFollowUp", c.interestId, "none", "",
                               c.nextFollowUpNumber, << >>)
     /\ UNCHANGED <<now, removalRequests, onboardingVars, submissions, sourceVars>>

\* if (!interest.contacted) await prisma.interestSubmission.update({ data: { contacted: true } })
addFollowUp_markContacted(p) ==
  LET c == calls[p]
  IN /\ c.pc = "markContacted"
     /\ submissions' = [submissions EXCEPT ![c.interestId].contacted = TRUE]
     /\ calls' = [calls EXCEPT ![p] = Idle]
     /\ last' = Result("addInterestFollowUp", c.interestId, "none", "",
                       c.nextFollowUpNumber, << >>)
     /\ UNCHANGED <<now, removalRequests, onboardingVars, followUps, nextFollowUpId, assigned, sourceVars>>

\* await prisma.interestFollowUp.findFirst({ where: { id, interestSubmission: { businessId } } })
deleteFollowUp_findFirst(p, followUpId, businessId) ==
  /\ calls[p].pc = "idle"
  /\ IF OwnedFollowUps(followUpId, businessId) = {}
     THEN /\ last' = Fail("deleteFollowUp", followUpId, "NotFoundError", "Follow-up not found")
          /\ UNCHANGED calls
     ELSE /\ calls' = [calls EXCEPT ![p] =
                [Idle EXCEPT !.pc = "deleteFollowUp", !.followUpId = followUpId]]
          /\ UNCHANGED last
  /\ UNCHANGED <<now, removalRequests, onboardingVars, interestVars, sourceVars>>

\* await prisma.interestFollowUp.delete({ where: { id: followUpId } }); the
\* delete throws when another call has removed the row meanwhile
deleteFollowUp_delete(p) ==
  LET row == {f \in followUps : f.id = calls[p].followUpId}
  IN /\ calls[p].pc = "deleteFollowUp"
     /\ followUps' = followUps \ row
     /\ last' = IF row # {}
                THEN Ok("deleteFollowUp", calls[p].followUpId)
                ELSE Fail("deleteFollowUp", calls[p].followUpId,
                          "PrismaClientKnownRequestError", "Record to delete does not exist")
     /\ calls' = [calls EXCEPT ![p] = Idle]
     /\ UNCHANGED <<now, removalRequests, onboardingVars, submissions, nextFollowUpId, assigned, sourceVars>>

\* ----------------------------------------------------- lead source registry
InDefaults(name) == \E i \in 1..Len(DEFAULT_SOURCES) : DEFAULT_SOURCES[i] = name

\* position of a name under orderBy: { name: 'asc' } (code unit order)
NameRank(name) ==
  CASE name = "Partner" -> 1
    [] name = "Website" -> 2
    [] name = "website" -> 3

RECURSIVE OrderByName(_)
OrderByName(rows) ==
  IF rows = {} THEN << >>
  ELSE LET first == CHOOSE r \in rows : \A q \in rows : NameRank(r.name) <= NameRank(q.name)
       IN <<first>> \o OrderByName(rows \ {first})

\* customSources.filter(s => !DEFAULT_SOURCES.includes(s.name)).map(s => s.name)
RECURSIVE CustomNames_Inverted(_)
CustomNames_Inverted(rows) ==
  IF rows = << >> THEN << >>
  ELSE (IF InDefaults(Head(rows).name) THEN <<Head(rows).name>> ELSE << >>)
       \o CustomNames_Inverted(Tail(rows))

RECURSIVE CustomNames(_)
CustomNames(rows) ==
  IF rows = << >> THEN << >>
  ELSE (IF InDefaults(Head(rows).name) THEN << >> ELSE <<Head(rows).name>>)
       \o CustomNames(Tail(rows))

getLeadSources(businessId) ==
  LET customSources == OrderByName({r \in leadSources : r.businessId = businessId})
  IN /\ last' = Result("getLeadSources", businessId, "none", "", NULL,
                       DEFAULT_SOURCES \o CustomNames(customSources))
     /\ UNCHANGED <<now, removalRequests, calls, onboardingVars, interestVars, sourceVars>>

\* prisma.leadSource.findFirst({ where: { businessId, name } })
ExistingSource_AnyBusiness(businessId, name) ==
  {r \in leadSources : r.name = name}

ExistingSource(businessId, name) ==
  {r \in leadSources : r.businessId = businessId /\ r.name = name}

addLeadSource(businessId, name) ==
  LET existing == ExistingSource(businessId, name)
  IN /\ (~InDefaults(name) /\ existing = {}) => nextSourceId <= MaxSources
     /\ IF InDefaults(name)
        THEN /\ last' = Fail("addLeadSource", businessId, "BadRequestError",
                             "This source already exists as a default source")
             /\ UNCHANGED sourceVars
        ELSE IF existing # {}
        THEN /\ last' = Fail("addLeadSource", businessId, "BadRequestError",
                             "This source already exists")
             /\ UNCHANGED sourceVars
        ELSE /\ leadSources' = leadSources \cup
                   {[id |-> nextSourceId, businessId |-> businessId, name |-> name,
                     isDefault |-> FALSE]}
             /\ nextSourceId' = nextSourceId + 1
             /\ last' = Ok("addLeadSource", businessId)
     /\ UNCHANGED <<now, removalRequests, calls, onboardingVars, interestVars>>

deleteLeadSource(sourceId, businessId) ==
  LET found == {r \in leadSources : r.id = sourceId /\ r.businessId = businessId}
      source == CHOOSE r \in found : TRUE
  IN /\ IF found = {}
        THEN /\ last' = Fail("deleteLeadSource", sourceId, "NotFoundError",
                             "Lead source not found")
             /\ UNCHANGED leadSources
        ELSE IF source.isDefault
        THEN /\ last' = Fail("deleteLeadSource", sourceId, "BadRequestError",
                             "Cannot delete default lead sources")
             /\ UNCHANGED leadSources
        ELSE /\ leadSources' = leadSources \ {source}
             /\ last' = Ok("deleteLeadSource", sourceId)
     /\ UNCHANGED <<now, removalRequests, calls, onboardingVars, interestVars, nextSourceId>>

\* ----------------------------------------------------------- specification
Next ==
  \/ Tick
  \/ \E email \in Emails : createOnboardingRequest(email)
  \/ \E id \in 1..Len(requests) + 1, emailOk \in BOOLEAN : approveOnboardingRequest(id, emailOk)
  \/ \E id \in 1..Len(requests) + 1, reason \in Reasons, emailOk \in BOOLEAN :
       rejectOnboardingRequest(id, reason, emailOk)
  \/ \E token \in 1..nextToken : validateRegistrationToken(token)
  \/ \E token \in 1..nextToken, reg \in RegNos, ind \in Industries :
       completeBusinessRegistration(token, reg, ind)
  \/ \E id \in 1..Len(businesses) + 1 : approveBusiness(id)
  \/ \E id \in 1..Len(businesses) + 1, reason \in Reasons : rejectBusiness(id, reason)

Spec == Init /\ [][Next]_vars

\* The store after two completed registrations (a state of Spec): the starting
\* point of the lead-tracking specifications.
RegisteredRow(email, n) ==
  [email |-> email, status |-> "APPROVED", onboardingToken |-> n,
   tokenExpiresAt |-> TOKEN_EXPIRATION_HOURS, rejectionReason |-> NULL,
   createdBusinessLoginId |-> n, reviewedAt |-> 0]

PendingBusiness(n, reg) ==
  [businessLoginId |-> n, registrationNumber |-> reg, status |-> "PENDING",
   rejectionReason |-> NULL, isActive |-> TRUE]

InitLeads ==
  /\ now = 0
  /\ calls = NoCalls
  /\ removalRequests = << >>
  /\ requests = <<RegisteredRow("a@x.com", 1), RegisteredRow("b@x.com", 2)>>
  /\ logins = <<[email |-> "a@x.com", isActive |-> TRUE],
                [email |-> "b@x.com", isActive |-> TRUE]>>
  /\ businesses = <<PendingBusiness(1, "REG-1"), PendingBusiness(2, "REG-2")>>
  /\ categories = SeedCategories
  /\ nextToken = 3
  /\ usedTokens = {1, 2}
  /\ submissions = << >>
  /\ followUps = {}
  /\ nextFollowUpId = 1
  /\ assigned = << >>
  /\ leadSources = {}
  /\ nextSourceId = 1
  /\ last = Ok("completeBusinessRegistration", 2)

\* the administrator reviews business 1 (and an unknown id); business 2 stays
\* PENDING and acts as the business that does not own the submissions
NextInterest ==
  \/ \E id \in {1, 3} : approveBusiness(id)
  \/ \E id \in {1, 3} : rejectBusiness(id, "incomplete")
  \/ \E b \in 1..3, source \in SourceInputs, emailsOk \in BOOLEAN :
       submitInterest(b, source, emailsOk)
  \/ \E i \in 1..Len(submissions) + 1, b \in 1..2, data \in StatusUpdates :
       updateInterestFollowUp(i, b, data)
  \/ \E i \in 1..Len(submissions) + 1, b \in 1..2 : addInterestFollowUp(i, b, "called", NULL)

SpecInterest == InitLeads /\ [][NextInterest]_vars

\* The store once both businesses are approved and each has received one
\* interest submission (a state of SpecInterest): the starting point of the
\* follow-up ledger specification.
NewSubmission(b) ==
  [businessId |-> b, status |-> "NOT_CONTACTED", contacted |-> FALSE,
   followUpRemarks |-> "", source |-> "aarthiQ Platform"]

InitFollowUps ==
  /\ now = 0
  /\ calls = NoCalls
  /\ removalRequests = << >>
  /\ requests = <<[RegisteredRow("a@x.com", 1) EXCEPT !.onboardingToken = NULL,
                                                      !.tokenExpiresAt = NULL],
                  [RegisteredRow("b@x.com", 2) EXCEPT !.onboardingToken = NULL,
                                                      !.tokenExpiresAt = NULL]>>
  /\ logins = <<[email |-> "a@x.com", isActive |-> TRUE],
                [email |-> "b@x.com", isActive |-> TRUE]>>
  /\ businesses = <<[PendingBusiness(1, "REG-1") EXCEPT !.status = "APPROVED"],
                    [PendingBusiness(2, "REG-2") EXCEPT !.status = "APPROVED"]>>
  /\ categories = SeedCategories
  /\ nextToken = 3
  /\ usedTokens = {1, 2}
  /\ submissions = <<NewSubmission(1), NewSubmission(2)>>
  /\ followUps = {}
  /\ nextFollowUpId = 1
  /\ assigned = <<<< >>, << >>>>
  /\ leadSources = {}
  /\ nextSourceId = 1
  /\ last = Ok("submitInterest", 2)

NextFollowUps ==
  \/ \E i \in 1..Len(submissions) + 1, b \in 1..2, r \in Remarks, d \in FollowUpDates :
       addInterestFollowUp(i, b, r, d)
  \/ \E f \in 1..nextFollowUpId, b \in 1..2, r \in Remarks, d \in FollowUpDates :
       updateFollowUp(f, b, r, d)
  \/ \E f \in 1..nextFollowUpId, b \in 1..2 : deleteFollowUp(f, b)

SpecFollowUps == InitFollowUps /\ [][NextFollowUps]_vars

\* The submission update on its own, from the store with one submission per
\* business.
NextUpdate ==
  \E i \in 1..Len(submissions) + 1, b \in 1..2, data \in UpdateData :
    updateInterestFollowUp(i, b, data)

SpecUpdate == InitFollowUps /\ [][NextUpdate]_vars

NextSources ==
  \/ \E b \in 1..2 : getLeadSources(b)
  \/ \E b \in 1..2, name \in SourceNames : addLeadSource(b, name)
  \/ \E id \in 1..nextSourceId, b \in 1..2 : deleteLeadSource(id, b)

SpecSources == InitLeads /\ [][NextSources]_vars

\* The store with two approved requests whose tokens are still unconsumed (a
\* state of Spec): the starting point of the interleaved registrations.
ApprovedRow(email, n) ==
  [RegisteredRow(email, n) EXCEPT !.createdBusinessLoginId = NULL]

InitComplete ==
  /\ now = 0
  /\ calls = NoCalls
  /\ removalRequests = << >>
  /\ requests = <<ApprovedRow("a@x.com", 1), ApprovedRow("b@x.com", 2)>>
  /\ logins = << >>
  /\ businesses = << >>
  /\ categories = SeedCategories
  /\ nextToken = 3
  /\ usedTokens = {}
  /\ submissions = << >>
  /\ followUps = {}
  /\ nextFollowUpId = 1
  /\ assigned = << >>
  /\ leadSources = {}
  /\ nextSourceId = 1
  /\ last = Ok("approveOnboardingRequest", 2)

NextComplete ==
  \E p \in Callers :
    \/ \E token \in 1..nextToken, reg \in RegNos, ind \in Industries :
         complete_findRequest(p, token, reg, ind)
    \/ complete_findLogin(p)
    \/ complete_findBusiness(p)
    \/ complete_findCategory(p)
    \/ complete_upsertCategory(p)
    \/ complete_transaction(p)

SpecComplete == InitComplete /\ [][NextComplete]_vars

\* Inquiries arriving at the same time on the empty store, with the
\* administrator reviewing them.
NextCreate ==
  \/ \E p \in Callers, email \in Emails : createRequest_findFirst(p, email)
  \/ \E p \in Callers : createRequest_create(p)
  \/ \E id \in 1..Len(requests) + 1, emailOk \in BOOLEAN : approveOnboardingRequest(id, emailOk)
  \/ \E id \in 1..Len(requests) + 1, reason \in Reasons, emailOk \in BOOLEAN :
       rejectOnboardingRequest(id, reason, emailOk)

SpecCreate == Init /\ [][NextCreate]_vars

\* The follow-up ledger of submission 1 with its business (1) and another
\* business (2) adding and deleting at the same time.
NextLedger ==
  \E p \in Callers :
    \/ \E i \in {1, 3}, b \in 1..2 : addFollowUp_findFirst(p, i, b)
    \/ addFollowUp_create(p, "called", NULL)
    \/ addFollowUp_markContacted(p)
    \/ \E f \in 1..nextFollowUpId, b \in 1..2 : deleteFollowUp_findFirst(p, f, b)
    \/ deleteFollowUp_delete(p)

SpecLedger == InitFollowUps /\ [][NextLedger]_vars

\* The administrator and the owner of business 1 after the two registrations:
\* review, activation, removal requests and logins.  Business 2 is left alone.
NextAdmin ==
  \/ \E id \in {1, 3} : approveBusiness(id)
  \/ \E id \in {1, 3} : rejectBusiness(id, "incomplete")
  \/ \E id \in {1, 3}, data \in AdminUpdates : updateBusiness(id, data)
  \/ \E id \in {1, 3} : toggleBusinessActive(id)
  \/ \E l \in {1, 3} : requestBusinessRemoval(l)
  \/ \E r \in 1..Len(removalRequests) + 1 : approveRemovalRequest(r)
  \/ \E r \in 1..Len(removalRequests) + 1 : rejectRemovalRequest(r)
  \/ \E email \in LoginEmails, passwordValid \in BOOLEAN : loginUser(email, passwordValid)

SpecAdmin == InitLeads /\ [][NextAdmin]_vars

\* Both businesses working on the leads of both: every mutation of a
\* submission and of its follow-ups, with its own and with the other
\* business's id.  The submission update marks the lead INTERESTED.
OwnershipUpdates == {d \in StatusUpdates : d.has = {"status"} /\ d.status = "INTERESTED"}

NextOwnership ==
  \/ \E i \in 1..Len(submissions) + 1, b \in 1..2, data \in OwnershipUpdates :
       updateInterestFollowUp(i, b, data)
  \/ \E i \in 1..Len(submissions) + 1, b \in 1..2 : addInterestFollowUp(i, b, "called", NULL)
  \/ \E f \in 1..nextFollowUpId, b \in 1..2 : updateFollowUp(f, b, "emailed", UNDEFINED)
  \/ \E f \in 1..nextFollowUpId, b \in 1..2 : deleteFollowUp(f, b)

SpecOwnership == InitFollowUps /\ [][NextOwnership]_vars

\* ================================================================== claims
StoreUnchanged == UNCHANGED <<removalRequests, onboardingVars, interestVars, sourceVars>>

C2_ApproveGuard ==
  [][\A id \in 1..Len(requests), ok \in BOOLEAN :
       (last'.op = "approveOnboardingRequest" /\ approveOnboardingRequest(id, ok))
       => IF requests[id].status \in {"APPROVED", "REJECTED"}
          THEN /\ last'.err = "BadRequestError"
               /\ requests'[id] = requests[id]
          ELSE /\ last'.err = "none"
               /\ requests'[id].status = "APPROVED"
               /\ requests'[id].onboardingToken # NULL
               /\ requests'[id].tokenExpiresAt # NULL]_vars

\* the request seeded as CONTACTED has been approved and holds a token, and
\* approving it once more has just been refused
C2_Witness ==
  /\ last.op = "approveOnboardingRequest"
  /\ last.err = "BadRequestError"
  /\ last.arg \in 1..Len(requests)
  /\ requests[last.arg].email = ContactedRow.email
  /\ requests[last.arg].status = "APPROVED"
  /\ requests[last.arg].onboardingToken # NULL
  /\ requests[last.arg].tokenExpiresAt # NULL

\* C3: rejectOnboardingRequest fails with BadRequestError and changes nothing
\* when the request is APPROVED, so no step takes a request from APPROVED to
\* REJECTED; from any other status it stores REJECTED and the given reason.
C3_RejectGuard ==
  [][/\ \A id \in 1..Len(requests), reason \in Reasons, ok \in BOOLEAN :
          (last'.op = "rejectOnboardingRequest" /\ rejectOnboardingRequest(id, reason, ok))
          => IF requests[id].status = "APPROVED"
             THEN /\ last'.err = "BadRequestError"
                  /\ StoreUnchanged
             ELSE /\ requests'[id].status = "REJECTED"
                  /\ requests'[id].rejectionReason = reason
     /\ \A id \in 1..Len(requests) :
          requests[id].status = "APPROVED" => requests'[id].status = "APPROVED"]_vars

\* rejecting an APPROVED request has just been refused
C3_Witness ==
  /\ last.op = "rejectOnboardingRequest"
  /\ last.err = "BadRequestError"
  /\ last.arg \in 1..Len(requests)
  /\ requests[last.arg].status = "APPROVED"
  /\ requests[last.arg].rejectionReason = NULL

\* C4: for an APPROVED request whose tokenExpiresAt is earlier than now,
\* validateRegistrationToken and completeBusinessRegistration fail with
\* BadRequestError 'Token has expired' and change nothing; a null expiry
\* counts as expired.
C4_ExpiredToken ==
  [][/\ isTokenExpired(NULL)
     /\ \A t \in 1..nextToken :
          LET found == RequestsByToken(t)
              request == requests[CHOOSE i \in found : TRUE]
          IN (/\ found # {}
              /\ request.status = "APPROVED"
              /\ request.tokenExpiresAt < now
              /\ last'.op \in {"validateRegistrationToken", "completeBusinessRegistration"}
              /\ \/ validateRegistrationToken(t)
                 \/ \E reg \in RegNos, ind \in Industries :
                      completeBusinessRegistration(t, reg, ind))
             => /\ last'.err = "BadRequestError"
                /\ last'.msg = "Token has expired"
                /\ StoreUnchanged]_vars

\* a completion attempt with an expired token of an APPROVED request has
\* just been refused
C4_Witness ==
  /\ last.op = "completeBusinessRegistration"
  /\ last.msg = "Token has expired"
  /\ \E i \in RequestsByToken(last.arg) :
       requests[i].status = "APPROVED" /\ requests[i].tokenExpiresAt < now

\* C5: submitInterest creates a submission only for an existing business whose
\* status is APPROVED; for PENDING or REJECTED it fails with BadRequestError,
\* for a missing business with NotFoundError, and creates nothing.
C5_SubmitGate ==
  [][/\ \A b \in 1..3, source \in SourceInputs, emailsOk \in BOOLEAN :
          (last'.op = "submitInterest" /\ submitInterest(b, source, emailsOk))
          => IF b \notin 1..Len(businesses)
             THEN last'.err = "NotFoundError" /\ StoreUnchanged
             ELSE IF businesses[b].status \in {"PENDING", "REJECTED"}
             THEN last'.err = "BadRequestError" /\ StoreUnchanged
             ELSE /\ last'.err = "none"
                  /\ Len(submissions') = Len(submissions) + 1
                  /\ submissions'[Len(submissions')].businessId = b
     /\ Len(submissions') > Len(submissions)
        => /\ submissions'[Len(submissions')].businessId \in 1..Len(businesses)
           /\ businesses[submissions'[Len(submissions')].businessId].status = "APPROVED"]_vars

\* a submission against a REJECTED business has just been refused, after an
\* earlier one was accepted while the business was APPROVED
C5_Witness ==
  /\ last.op = "submitInterest"
  /\ last.err = "BadRequestError"
  /\ businesses[last.arg].status = "REJECTED"
  /\ \E i \in 1..Len(submissions) : submissions[i].businessId = last.arg

\* C6: the Nth follow-up added to a submission gets followUpNumber = N, for
\* every sequence of addInterestFollowUp, updateFollowUp and deleteFollowUp.
C6_NthGetsN ==
  \A i \in 1..Len(assigned) : \A n \in 1..Len(assigned[i]) : assigned[i][n] = n

\* C7: a followUpNumber once given to a follow-up of a submission is never
\* given to a later follow-up of that submission.
C7_NeverReused ==
  \A i \in 1..Len(assigned) : \A m, n \in 1..Len(assigned[i]) :
    m # n => assigned[i][m] # assigned[i][n]

\* C8: updateInterestFollowUp by the owning business with status INTERESTED or
\* NOT_INTERESTED leaves contacted = true, also when contacted = false is
\* passed; with status NOT_CONTACTED or no status it stores the caller's
\* contacted value, or keeps the stored one when none is passed.
C8_ContactedForced ==
  [][\A i \in 1..Len(submissions), b \in 1..2, data \in UpdateData :
       (/\ last'.op = "updateInterestFollowUp"
        /\ submissions[i].businessId = b
        /\ updateInterestFollowUp(i, b, data))
       => submissions'[i].contacted =
            IF "status" \in data.has /\ data.status \in {"INTERESTED", "NOT_INTERESTED"}
            THEN TRUE
            ELSE IF "contacted" \in data.has THEN data.contacted
            ELSE submissions[i].contacted]_vars

\* the owner has just updated a submission that now is INTERESTED and contacted
C8_Witness ==
  /\ last.op = "updateInterestFollowUp"
  /\ last.err = "none"
  /\ submissions[last.arg].status = "INTERESTED"
  /\ submissions[last.arg].contacted

\* C9: addLeadSource fails with BadRequestError and creates no row when the
\* name equals (case-sensitively) a default source or a custom source of the
\* same business; otherwise (other letter case, other business) it succeeds;
\* so no business ever holds two custom sources of one name or one named like
\* a default.
C9_SourceNamesUnique ==
  [][/\ \A b \in 1..2, name \in SourceNames :
          (last'.op = "addLeadSource" /\ addLeadSource(b, name))
          => IF \/ \E k \in 1..Len(DEFAULT_SOURCES) : DEFAULT_SOURCES[k] = name
                \/ \E r \in leadSources : r.businessId = b /\ r.name = name
             THEN last'.err = "BadRequestError" /\ StoreUnchanged
             ELSE /\ last'.err = "none"
                  /\ \E r \in leadSources' \ leadSources : r.businessId = b /\ r.name = name
     /\ \A r, q \in leadSources' :
          /\ (r.businessId = q.businessId /\ r.name = q.name) => r = q
          /\ \A k \in 1..Len(DEFAULT_SOURCES) : DEFAULT_SOURCES[k] # r.name]_vars

\* a duplicate has just been refused while both businesses hold "website",
\* which differs from the default "Website" only in letter case
C9_Witness ==
  /\ last.op = "addLeadSource"
  /\ last.err = "BadRequestError"
  /\ \E r, q \in leadSources :
       r.name = "website" /\ q.name = "website" /\ r.businessId # q.businessId

\* C10: after any sequence of addLeadSource and deleteLeadSource calls,
\* getLeadSources lists the six default sources, each exactly once, followed
\* by the business's custom names.
C10_DefaultsKept ==
  [][\A b \in 1..2 :
       (last'.op = "getLeadSources" /\ getLeadSources(b))
       => LET list == last'.list
              custom == {r \in leadSources : r.businessId = b}
          IN /\ SubSeq(list, 1, 6) = DEFAULT_SOURCES
             /\ \A k \in 1..6 :
                  Cardinality({j \in 1..Len(list) : list[j] = DEFAULT_SOURCES[k]}) = 1
             /\ Len(list) = 6 + Cardinality(custom)
             /\ {list[j] : j \in 7..Len(list)} = {r.name : r \in custom}]_vars

\* getLeadSources has just listed custom names after a source was deleted
C10_Witness ==
  /\ last.op = "getLeadSources"
  /\ Len(last.list) > 6
  /\ \E id \in 1..nextSourceId - 1 : \A r \in leadSources : r.id # id

\* C11: in every reachable state, also after a completeBusinessRegistration
\* whose transaction failed, logins and businesses correspond one to one and
\* are linked to a consumed request: each BusinessLogin has exactly one
\* Business, each Business has exactly one BusinessLogin, and a request has
\* createdBusinessLoginId set exactly when the login with its email and the
\* business of that login exist.
C11_LoginBusinessOneToOne ==
  /\ \A l \in 1..Len(logins) :
       Cardinality({b \in 1..Len(businesses) : businesses[b].businessLoginId = l}) = 1
  /\ \A b \in 1..Len(businesses) : businesses[b].businessLoginId \in 1..Len(logins)
  /\ \A i \in 1..Len(requests) :
       LET l == requests[i].createdBusinessLoginId
       IN IF l # NULL
          THEN /\ l \in 1..Len(logins)
               /\ logins[l].email = requests[i].email
               /\ \E b \in 1..Len(businesses) : businesses[b].businessLoginId = l
          ELSE \A k \in 1..Len(logins) : logins[k].email # requests[i].email

\* a registration transaction has just failed on a unique constraint while
\* the other registration is in the store
C11_Witness ==
  /\ last.op = completeOp
  /\ last.err = "PrismaClientKnownRequestError"
  /\ Len(logins) = 1
  /\ Len(businesses) = 1
  /\ \E i \in 1..Len(requests) : requests[i].createdBusinessLoginId = NULL

\* C15: of two completeBusinessRegistration calls that pass the token checks
\* with the same token before either writes, at most one creates a login and
\* a business; the call that ends once the token is consumed fails and leaves
\* logins, businesses and requests as they are.
C15_OneRegistrationPerToken ==
  [][/\ \A i \in 1..Len(requests') :
          Cardinality({l \in 1..Len(logins') : logins'[l].email = requests'[i].email}) <= 1
     /\ \A p \in Callers :
          (/\ calls[p].pc # "idle"
           /\ requests[calls[p].request].createdBusinessLoginId # NULL
           /\ calls'[p].pc = "idle"
           /\ \/ complete_findLogin(p)
              \/ complete_findBusiness(p)
              \/ complete_transaction(p))
          => /\ last'.arg = calls[p].token
             /\ last'.err # "none"
             /\ UNCHANGED <<logins, businesses, requests>>]_vars

\* the transaction of the second caller has just failed although the call had
\* passed every check: its token was consumed by the first caller meanwhile
C15_Witness ==
  /\ last.op = completeOp
  /\ last.err = "PrismaClientKnownRequestError"
  /\ \E i \in RequestsByToken(last.arg) : requests[i].createdBusinessLoginId # NULL
  /\ Len(logins) = 1
  /\ Len(businesses) = 1

\* C12 (as stated): immediately after a successful
\* completeBusinessRegistration the request's onboardingToken and
\* tokenExpiresAt are null and createdBusinessLoginId names the created login.
C12_TokenClearedOnCompletion ==
  [][\A t \in 1..nextToken :
       (/\ last'.op = "completeBusinessRegistration"
        /\ last'.err = "none"
        /\ \E reg \in RegNos, ind \in Industries : completeBusinessRegistration(t, reg, ind))
       => \A i \in RequestsByToken(t) :
            /\ requests'[i].onboardingToken = NULL
            /\ requests'[i].tokenExpiresAt = NULL
            /\ requests'[i].createdBusinessLoginId = Len(logins')]_vars

\* C17 (as stated): whenever completeBusinessRegistration ends with an error,
\* also one raised inside the transaction, the call has left logins,
\* businesses, onboarding requests and categories as they were.
C17_AllOrNothing ==
  [][\A p \in Callers :
       (/\ calls[p].pc # "idle"
        /\ calls'[p].pc = "idle"
        /\ last'.err # "none"
        /\ \/ complete_findLogin(p)
           \/ complete_findBusiness(p)
           \/ complete_transaction(p))
       => /\ UNCHANGED <<logins, businesses, requests, categories>>
          /\ ~calls[p].categoryCreated]_vars

\* C17 (amended): a completeBusinessRegistration call that ends with an error
\* has written no login, no business and no request (a failing transaction is
\* rolled back); the only row it can leave behind is the category of its
\* industry, which category.upsert inserts before the transaction starts.
C17_RollbackKeepsCategory ==
  [][\A p \in Callers :
       /\ (/\ calls[p].pc # "idle"
           /\ calls'[p].pc = "idle"
           /\ last'.err # "none"
           /\ \/ complete_findLogin(p)
              \/ complete_findBusiness(p)
              \/ complete_transaction(p))
          => UNCHANGED <<logins, businesses, requests, categories>>
       /\ (\/ \E t \in 1..nextToken, reg \in RegNos, ind \in Industries :
                complete_findRequest(p, t, reg, ind)
           \/ complete_findLogin(p)
           \/ complete_findBusiness(p)
           \/ complete_findCategory(p)
           \/ complete_upsertCategory(p))
          => /\ UNCHANGED <<logins, businesses, requests>>
             /\ categories \subseteq categories'
             /\ categories' # categories
                => categories' \ categories =
                     {[name |-> calls[p].industry, slug |-> Slug(calls[p].industry)]}]_vars

\* a transaction has just failed in a call that had inserted its category
C17_Witness ==
  /\ last.op = completeOp
  /\ last.err = "PrismaClientKnownRequestError"
  /\ last.num = 1
  /\ \E c \in categories : c \notin SeedCategories

\* C18 (as stated): a completeBusinessRegistration call made with a valid,
\* unexpired, unconsumed token that fails with ConflictError (email or
\* registration number taken) leaves the token unconsumed and the email free,
\* so that a later call with the token and a free registration number succeeds.
C18_ConflictKeepsTokenUsable ==
  (last.op = completeOp /\ last.err = "ConflictError")
  => \A i \in RequestsByToken(last.arg) :
       /\ requests[i].createdBusinessLoginId = NULL
       /\ \A l \in 1..Len(logins) : logins[l].email # requests[i].email

\* C18 (amended): the email check fails with ConflictError exactly when a
\* login with the request's email exists, the registration-number check
\* exactly when a business with that number exists; either way the failing
\* call writes nothing.  After a registration-number conflict a later call with
\* the token and a free number passes every check as long as no other call has
\* consumed the token; once a login with the request's email exists no call
\* with that token succeeds any more.
C18_ConflictChecks ==
  [][\A p \in Callers :
       /\ complete_findLogin(p)
          => /\ StoreUnchanged
             /\ IF \E l \in 1..Len(logins) : logins[l].email = calls[p].email
                THEN /\ calls'[p].pc = "idle"
                     /\ last'.err = "ConflictError"
                     /\ last'.msg = "Email already registered"
                ELSE calls'[p].pc = "findBusiness"
       /\ complete_findBusiness(p)
          => /\ StoreUnchanged
             /\ IF \E b \in 1..Len(businesses) :
                     businesses[b].registrationNumber = calls[p].registrationNumber
                THEN /\ calls'[p].pc = "idle"
                     /\ last'.err = "ConflictError"
                     /\ last'.msg = "Registration number already exists"
                     /\ requests[calls[p].request].createdBusinessLoginId = NULL
                        => /\ TokenError(completeOp, calls[p].token).err = "none"
                           /\ \A l \in 1..Len(logins') : logins'[l].email # calls[p].email
                ELSE calls'[p].pc = "findCategory"
       /\ (complete_transaction(p) /\ last'.err = "none")
          => \A l \in 1..Len(logins) : logins[l].email # calls[p].email
       /\ Len(logins') >= Len(logins)
       /\ \A l \in 1..Len(logins) : logins'[l] = logins[l]]_vars

\* a call has just been refused because its registration number is taken,
\* and its token is still unconsumed
C18_Witness ==
  /\ last.op = completeOp
  /\ last.msg = "Registration number already exists"
  /\ \E i \in RequestsByToken(last.arg) : requests[i].createdBusinessLoginId = NULL
  /\ Len(businesses) = 1

\* C13: in every reachable state, also when createOnboardingRequest calls
\* interleave between their duplicate check and their insert, at most one
\* request per email has status PENDING, CONTACTED or APPROVED.
C13_EmailUniqueWhileActive ==
  \A email \in Emails :
    Cardinality({i \in 1..Len(requests) :
                   /\ requests[i].email = email
                   /\ requests[i].status \in {"PENDING", "CONTACTED", "APPROVED"}}) <= 1

\* C14: a successful submitInterest against an APPROVED business stores a
\* submission with status NOT_CONTACTED and contacted = false, and the call's
\* result and the stored state are the same whether the two notification
\* emails succeed or fail.
C14_EmailIndependent ==
  [][\A b \in 1..Len(businesses), source \in SourceInputs, emailsOk \in BOOLEAN :
       (/\ last'.op = "submitInterest"
        /\ businesses[b].status = "APPROVED"
        /\ submitInterest(b, source, emailsOk))
       => /\ last'.err = "none"
          /\ Len(submissions') = Len(submissions) + 1
          /\ submissions'[Len(submissions')].businessId = b
          /\ submissions'[Len(submissions')].status = "NOT_CONTACTED"
          /\ submissions'[Len(submissions')].contacted = FALSE
          /\ SubSeq(submissions', 1, Len(submissions)) = submissions
          /\ submitInterest(b, source, ~emailsOk)]_vars

\* an interest has just been stored for an APPROVED business
C14_Witness ==
  /\ last.op = "submitInterest"
  /\ last.err = "none"
  /\ businesses[last.arg].status = "APPROVED"
  /\ submissions[Len(submissions)].businessId = last.arg
  /\ ~submissions[Len(submissions)].contacted

\* C16: for every interleaving of addInterestFollowUp and deleteFollowUp calls
\* on one submission, the follow-ups that exist for it have pairwise distinct
\* followUpNumbers, and a follow-up being created gets a number strictly
\* larger than that of every follow-up of the submission existing then.
C16_DistinctAndIncreasing ==
  [][/\ \A f, g \in followUps' :
          (/\ f.interestSubmissionId = g.interestSubmissionId
           /\ f.followUpNumber = g.followUpNumber) => f = g
     /\ \A f \in followUps' : \A g \in followUps :
          (/\ f.id >= nextFollowUpId
           /\ g.interestSubmissionId = f.interestSubmissionId)
          => f.followUpNumber > g.followUpNumber]_vars

\* C19: when the approval email fails to send, approveOnboardingRequest still
\* returns successfully and the request is stored APPROVED with its token and
\* expiry; result and stored state are those of the call whose email was sent.
C19_ApprovalEmailSwallowed ==
  [][\A id \in 1..Len(requests) :
       (/\ last'.op = "approveOnboardingRequest"
        /\ requests[id].status \in {"PENDING", "CONTACTED"}
        /\ approveOnboardingRequest(id, FALSE))
       => /\ last'.err = "none"
          /\ requests'[id].status = "APPROVED"
          /\ requests'[id].onboardingToken = nextToken
          /\ requests'[id].tokenExpiresAt = now + TOKEN_EXPIRATION_HOURS
          /\ approveOnboardingRequest(id, TRUE)]_vars

\* a request has just been approved at a later hour and holds its fresh token
C19_Witness ==
  /\ last.op = "approveOnboardingRequest"
  /\ last.err = "none"
  /\ now > 0
  /\ requests[last.arg].status = "APPROVED"
  /\ requests[last.arg].onboardingToken = nextToken - 1
  /\ requests[last.arg].tokenExpiresAt = now + TOKEN_EXPIRATION_HOURS
  /\ requests[last.arg].createdBusinessLoginId = NULL

\* C20: when the rejection email fails to send, rejectOnboardingRequest raises
\* an error although the request is stored REJECTED with the given reason
\* (nothing is rolled back), and a repeated reject call on that request is
\* accepted again.
C20_RejectionEmailThrows ==
  [][\A id \in 1..Len(requests), reason \in Reasons :
       /\ (/\ last'.op = "rejectOnboardingRequest"
           /\ requests[id].status # "APPROVED"
           /\ rejectOnboardingRequest(id, reason, FALSE))
          => /\ last'.err = "Error"
             /\ requests'[id].status = "REJECTED"
             /\ requests'[id].rejectionReason = reason
             /\ \A other \in 1..Len(requests) : other # id => requests'[other] = requests[other]
       /\ (/\ last'.op = "rejectOnboardingRequest"
           /\ requests[id].status = "REJECTED"
           /\ rejectOnboardingRequest(id, reason, TRUE))
          => /\ last'.err = "none"
             /\ requests'[id].status = "REJECTED"
             /\ requests'[id].rejectionReason = reason]_vars

\* the rejection email has just failed and the request is stored REJECTED
C20_Witness ==
  /\ last.op = "rejectOnboardingRequest"
  /\ last.err = "Error"
  /\ last.msg = "Failed to send email"
  /\ requests[last.arg].status = "REJECTED"
  /\ requests[last.arg].rejectionReason \in Reasons

\* C21: after a successful approveBusiness or rejectBusiness the onboarding
\* request linked to that business's login has onboardingToken = null and
\* tokenExpiresAt = null, cleared in the step that changes the business
\* status; a call that fails changes neither.
C21_TokenClearedWithReview ==
  [][\A id \in 1..Len(businesses) :
       (/\ last'.op \in {"approveBusiness", "rejectBusiness"}
        /\ \/ approveBusiness(id)
           \/ \E reason \in Reasons : rejectBusiness(id, reason))
       => IF last'.err = "none"
          THEN /\ businesses'[id].status # businesses[id].status
               /\ \A i \in 1..Len(requests) :
                    requests[i].createdBusinessLoginId = businesses[id].businessLoginId
                    => /\ requests'[i].onboardingToken = NULL
                       /\ requests'[i].tokenExpiresAt = NULL
          ELSE StoreUnchanged]_vars

\* a business has just been reviewed and the request linked to its login has
\* lost the token it was registered with
C21_Witness ==
  /\ last.op \in {"approveBusiness", "rejectBusiness"}
  /\ last.err = "none"
  /\ usedTokens # {}
  /\ \E i \in 1..Len(requests) :
       /\ requests[i].createdBusinessLoginId = businesses[last.arg].businessLoginId
       /\ requests[i].onboardingToken = NULL
       /\ requests[i].tokenExpiresAt = NULL

\* C22: approveBusiness and rejectBusiness leave isActive of every business and
\* of every login as it was; toggleBusinessActive and approveRemovalRequest
\* leave status and rejectionReason of every business as they were.
C22_ReviewAndActivationIndependent ==
  [][/\ last'.op \in {"approveBusiness", "rejectBusiness"}
        => /\ \A b \in 1..Len(businesses) : businesses'[b].isActive = businesses[b].isActive
           /\ \A l \in 1..Len(logins) : logins'[l].isActive = logins[l].isActive
           /\ Len(businesses') = Len(businesses) /\ Len(logins') = Len(logins)
     /\ last'.op \in {"toggleBusinessActive", "approveRemovalRequest"}
        => /\ Len(businesses') = Len(businesses)
           /\ \A b \in 1..Len(businesses) :
                /\ businesses'[b].status = businesses[b].status
                /\ businesses'[b].rejectionReason = businesses[b].rejectionReason]_vars

\* a business rejected with a reason and deactivated by an approved removal
\* request is reactivated and is still REJECTED with its reason
C22_Witness ==
  /\ last.op = "toggleBusinessActive" /\ last.err = "none"
  /\ businesses[1].status = "REJECTED" /\ businesses[1].rejectionReason = "incomplete"
  /\ businesses[1].isActive /\ logins[1].isActive
  /\ \E r \in 1..Len(removalRequests) :
       removalRequests[r].businessId = 1 /\ removalRequests[r].status = "APPROVED"

\* a step of the onboarding service that leaves request i with the given status
C23_MovesTo(i, status) ==
  /\ \/ \E email \in Emails : createOnboardingRequest(email)
     \/ \E id \in 1..Len(requests) + 1, emailOk \in BOOLEAN :
          approveOnboardingRequest(id, emailOk)
     \/ \E id \in 1..Len(requests) + 1, reason \in Reasons, emailOk \in BOOLEAN :
          rejectOnboardingRequest(id, reason, emailOk)
     \/ \E token \in 1..nextToken : validateRegistrationToken(token)
     \/ \E token \in 1..nextToken, reg \in RegNos, ind \in Industries :
          completeBusinessRegistration(token, reg, ind)
  /\ requests'[i].status = status

\* C23: whenever an onboarding request is PENDING, the onboarding service has
\* an operation that moves it to CONTACTED, one that moves it to APPROVED and
\* one that moves it to REJECTED.
C23_PendingCanMove ==
  \A i \in 1..Len(requests) :
    requests[i].status = "PENDING"
    => /\ ENABLED C23_MovesTo(i, "APPROVED")
       /\ ENABLED C23_MovesTo(i, "REJECTED")
       /\ ENABLED C23_MovesTo(i, "CONTACTED")

\* what does hold: a PENDING request can always be approved and rejected ...
C23_PendingCanBeReviewed ==
  \A i \in 1..Len(requests) :
    requests[i].status = "PENDING"
    => /\ ENABLED C23_MovesTo(i, "APPROVED")
       /\ ENABLED C23_MovesTo(i, "REJECTED")

\* ... and no step gives a request the status CONTACTED
C23_NeverBecomesContacted ==
  [][\A i \in 1..Len(requests') :
       requests'[i].status = "CONTACTED"
       => i \in 1..Len(requests) /\ requests[i].status = "CONTACTED"]_vars

\* the businesses that own submission interestId / follow-up followUpId
C24_SubmissionOwners(interestId) ==
  {submissions[i].businessId : i \in {interestId} \cap (1..Len(submissions))}

C24_FollowUpOwners(followUpId) ==
  {submissions[f.interestSubmissionId].businessId : f \in {g \in followUps : g.id = followUpId}}

\* C24: updateInterestFollowUp, addInterestFollowUp, updateFollowUp and
\* deleteFollowUp called with the id of a business that does not own the
\* submission (or the submission of the follow-up) fail with NotFoundError and
\* change no submission and no follow-up; a successful deleteFollowUp removes
\* the row with the given id and leaves every other follow-up, its
\* followUpNumber included, as it was.
C24_LeadsScopedToOwner ==
  [][\A b \in 1..2 :
       /\ \A i \in 1..Len(submissions) + 1 :
            (/\ last'.op \in {"updateInterestFollowUp", "addInterestFollowUp"}
             /\ b \notin C24_SubmissionOwners(i)
             /\ \/ \E data \in OwnershipUpdates : updateInterestFollowUp(i, b, data)
                \/ addInterestFollowUp(i, b, "called", NULL))
            => /\ last'.err = "NotFoundError"
               /\ submissions' = submissions /\ followUps' = followUps
       /\ \A f \in 1..nextFollowUpId :
            /\ (/\ last'.op \in {"updateFollowUp", "deleteFollowUp"}
                /\ b \notin C24_FollowUpOwners(f)
                /\ \/ updateFollowUp(f, b, "emailed", UNDEFINED)
                   \/ deleteFollowUp(f, b))
               => /\ last'.err = "NotFoundError"
                  /\ submissions' = submissions /\ followUps' = followUps
            /\ (/\ last'.op = "deleteFollowUp" /\ last'.err = "none"
                /\ deleteFollowUp(f, b))
               => /\ followUps' = {g \in followUps : g.id # f}
                  /\ followUps' # followUps
                  /\ submissions' = submissions]_vars

\* business 2 has just been refused on a follow-up of business 1 that has a
\* sibling, after one follow-up of that submission was deleted
C24_Witness ==
  /\ last.op \in {"updateFollowUp", "deleteFollowUp"}
  /\ last.err = "NotFoundError"
  /\ \E f \in followUps :
       /\ f.id = last.arg /\ submissions[f.interestSubmissionId].businessId = 1
       /\ f.followUpNumber = 2
       /\ \A g \in followUps : g.followUpNumber # 1

\* request i is approved, its token expired before anyone registered with it,
\* and no BusinessLogin exists for its email
C25_DeadEnd(i) ==
  /\ requests[i].status = "APPROVED"
  /\ requests[i].createdBusinessLoginId = NULL
  /\ requests[i].tokenExpiresAt # NULL /\ now > requests[i].tokenExpiresAt
  /\ \A l \in 1..Len(logins) : logins[l].email # requests[i].email

\* C25: an approved request whose token expired before registration stays in
\* that state and never gets a BusinessLogin for its email: approving it again
\* fails with "Request already approved", rejecting it fails with "Cannot
\* reject an approved request", a new request with its email fails with
\* ConflictError, and validating or completing with its token fails with
\* "Token has expired".
C25_ExpiredApprovalIsDeadEnd ==
  [][\A i \in 1..Len(requests) :
       C25_DeadEnd(i)
       => /\ C25_DeadEnd(i)'
          /\ \A emailOk \in BOOLEAN :
               (last'.op = "approveOnboardingRequest" /\ approveOnboardingRequest(i, emailOk))
               => last'.err = "BadRequestError" /\ last'.msg = "Request already approved"
          /\ \A reason \in Reasons, emailOk \in BOOLEAN :
               (last'.op = "rejectOnboardingRequest"
                /\ rejectOnboardingRequest(i, reason, emailOk))
               => /\ last'.err = "BadRequestError"
                  /\ last'.msg = "Cannot reject an approved request"
          /\ (last'.op = "createOnboardingRequest"
              /\ createOnboardingRequest(requests[i].email))
             => last'.err = "ConflictError"
          /\ (/\ last'.op \in {"validateRegistrationToken", "completeBusinessRegistration"}
              /\ last'.arg = requests[i].onboardingToken)
             => last'.err = "BadRequestError" /\ last'.msg = "Token has expired"]_vars

\* registration was tried with the expired token of an approved request
C25_Witness ==
  /\ last.op = "completeBusinessRegistration"
  /\ last.msg = "Token has expired"
  /\ \E i \in 1..Len(requests) :
       C25_DeadEnd(i) /\ requests[i].onboardingToken = last.arg

\* C26 as claimed: in every state a submission whose status is INTERESTED or
\* NOT_INTERESTED has contacted = true.
C26_DecidedImpliesContacted ==
  \A i \in 1..Len(submissions) :
    submissions[i].status \in {"INTERESTED", "NOT_INTERESTED"} => submissions[i].contacted

\* C26: a step of submitInterest, updateInterestFollowUp or addInterestFollowUp
\* that writes a submission leaves it INTERESTED or NOT_INTERESTED with
\* contacted = false only when it is a successful updateInterestFollowUp of
\* that submission that passes contacted = false and no status: the status
\* was INTERESTED or NOT_INTERESTED before and is kept.
C26_UncontactedOnlyByPlainUpdate ==
  [][\A i \in 1..Len(submissions') :
       (/\ submissions'[i].status \in {"INTERESTED", "NOT_INTERESTED"}
        /\ ~submissions'[i].contacted
        /\ (i \in 1..Len(submissions) => submissions[i] # submissions'[i]))
       => /\ i \in 1..Len(submissions)
          /\ submissions[i].status = submissions'[i].status
          /\ submissions[i].contacted
          /\ last'.op = "updateInterestFollowUp" /\ last'.arg = i /\ last'.err = "none"
          /\ \E data \in StatusUpdates :
               /\ data.has = {"contacted"} /\ ~data.contacted
               /\ updateInterestFollowUp(i, submissions[i].businessId, data)]_vars

\* an INTERESTED submission has just been marked as not contacted
C26_Witness ==
  /\ last.op = "updateInterestFollowUp" /\ last.err = "none"
  /\ submissions[last.arg].status = "INTERESTED"
  /\ ~submissions[last.arg].contacted

\* the token and the link to the created login are held by APPROVED requests only
C27_TokenAndLinkOnlyWhenApproved ==
  \A i \in 1..Len(requests) :
    /\ requests[i].onboardingToken # NULL => requests[i].status = "APPROVED"
    /\ requests[i].createdBusinessLoginId # NULL => requests[i].status = "APPROVED"

C28_BusinessLoginGate ==
  [][\A email \in LoginEmails, passwordValid \in BOOLEAN, l \in 1..Len(logins) :
       (/\ last'.op = "loginUser"
        /\ logins[l].email = toLowerCase(email)
        /\ loginUser(email, passwordValid))
       => /\ last'.arg = l
          /\ IF /\ passwordValid
                /\ logins[l].isActive
                /\ \E b \in 1..Len(businesses) :
                     /\ businesses[b].businessLoginId = l
                     /\ businesses[b].status = "APPROVED"
             THEN last'.err = "none" /\ last'.msg = "BUSINESS"
             ELSE last'.err = "UnauthorizedError"
          /\ StoreUnchanged]_vars

\* the right password is refused for the login of an approved business that
\* an approved removal request has deactivated
C28_Witness ==
  /\ last.op = "loginUser" /\ last.err = "UnauthorizedError"
  /\ last.msg = "Account is inactive"
  /\ last.arg = 1
  /\ businesses[1].status = "APPROVED"
  /\ ~logins[1].isActive
  /\ \E r \in 1..Len(removalRequests) :
       removalRequests[r].businessId = 1 /\ removalRequests[r].status = "APPROVED"

\* the PENDING removal requests of a business, read off the table
C29_Pending(businessId) ==
  {r \in 1..Len(removalRequests) :
     removalRequests[r].businessId = businessId /\ removalRequests[r].status = "PENDING"}

C30_ActiveFlagsAgree ==
  \A b \in 1..Len(businesses) :
    businesses[b].isActive = logins[businesses[b].businessLoginId].isActive

\* what does hold: toggleBusinessActive and approveRemovalRequest leave the two
\* flags of the business they write equal
C30_TogglesWriteBoth ==
  [][(last'.op \in {"toggleBusinessActive", "approveRemovalRequest"} /\ last'.err = "none")
     => \E b \in 1..Len(businesses) :
          /\ businesses'[b].isActive = logins'[businesses[b].businessLoginId].isActive
          /\ \A c \in 1..Len(businesses) : c # b => businesses'[c] = businesses[c]]_vars

====
